---- MODULE Spec2Model ----
(***************************************************************************)
(* State-machine model of RyderSerial (src/src/ryder-serial.ts): the       *)
(* protocol engine (serial_data, serial_watchdog, serial_error, next), the *)
(* command queue and lock layer (send, lock, unlock, clear) and the        *)
(* connection supervisor (open, close and the port's event handlers).      *)
(*                                                                         *)
(* Every handler of the class is an operator from an instance record to    *)
(* an instance record, translated statement by statement; an action runs   *)
(* one handler to completion (the class runs on one event loop).           *)
(***************************************************************************)
EXTENDS Integers, Sequences, FiniteSets, TLC

\* ---------------------------------------------------------------- constants
RESPONSE_OK == 1
RESPONSE_SEND_INPUT == 2
RESPONSE_REJECTED == 3
RESPONSE_OUTPUT == 4
RESPONSE_OUTPUT_END == 5
RESPONSE_ESC_SEQUENCE == 6
RESPONSE_WAIT_USER_CONFIRM == 10
RESPONSE_LOCKED == 11
COMMAND_INFO == 2

response_errors ==
    [b \in 246..255 |->
        CASE b = 255 -> "RESPONSE_ERROR_UNKNOWN_COMMAND"
          [] b = 254 -> "RESPONSE_ERROR_NOT_INITIALIZED"
          [] b = 253 -> "RESPONSE_ERROR_MEMORY_ERROR"
          [] b = 252 -> "RESPONSE_ERROR_APP_DOMAIN_TOO_LONG"
          [] b = 251 -> "RESPONSE_ERROR_APP_DOMAIN_INVALID"
          [] b = 250 -> "RESPONSE_ERROR_MNEMONIC_TOO_LONG"
          [] b = 249 -> "RESPONSE_ERROR_MNEMONIC_INVALID"
          [] b = 248 -> "RESPONSE_ERROR_GENERATE_MNEMONIC"
          [] b = 247 -> "RESPONSE_ERROR_INPUT_TIMEOUT"
          [] b = 246 -> "RESPONSE_ERROR_NOT_IMPLEMENTED"]

\* enum State
IDLE == "IDLE"
SENDING == "SENDING"
READING == "READING"

\* ------------------------------------------------------------------- bounds
\* Commands accepted by send() in one run (ids 1..MaxCmds).
MaxCmds == 2
\* Commands accepted in a run in which no send() uses prepend.
MaxAppends == 3
\* Longest inbound buffer of one data event.
MaxBuf == 2
\* Longest output buffer an entry accumulates.
MaxOut == 1
\* Most release handles in the lock queue.
MaxLocks == 1

\* Inbound bytes: an ack, the output framing bytes, the two notifications
\* and a named error byte.
Bytes == {RESPONSE_OK, RESPONSE_OUTPUT, RESPONSE_OUTPUT_END, RESPONSE_ESC_SEQUENCE,
          RESPONSE_WAIT_USER_CONFIRM, RESPONSE_LOCKED, 255}

RECURSIVE SeqsUpTo(_, _)
SeqsUpTo(S, n) ==
    IF n = 0 THEN {<<>>}
    ELSE LET shorter == SeqsUpTo(S, n - 1)
         IN  shorter \cup {Append(s, b) : s \in {t \in shorter : Len(t) = n - 1}, b \in S}

Buffers == SeqsUpTo(Bytes, MaxBuf) \ {<<>>}

VARIABLES
    \* the instance
    train,            \* this[train_symbol]: the queue of TrainEntry
    state,            \* this[state_symbol]
    watchdog,         \* the timer this[watchdog_symbol] refers to is armed
    timers,           \* number of armed watchdog timers, referenced or not
    locks,            \* this[lock_symbol].length (every handle is Promise.resolve)
    closing,          \* this.closing
    serial,           \* this.serial: "none" (undefined), "opening", "open", "closed"
    reconnect,        \* the interval this[reconnect_symbol] refers to is armed
    reject_on_locked, \* this.options.reject_on_locked
    nextId,           \* number of entries created so far
    \* what has happened to the entries
    fired,            \* ids of the entries with a completion handle invoked
    written,          \* ids of the entries whose bytes were written to the port
    inflight,         \* id of the entry written last (0: none)
    \* what the last handler did
    done,             \* completion handles it invoked, in order
    wrote,            \* ids it wrote to the port, in order
    emitted,          \* observer events it emitted, in order
    threw,            \* an exception left it
    ret,              \* send(): "ERROR_DISCONNECTED" or "pending"; lock(): "completed"; else ""
    \* the device's response stream, for the runs that replay one
    orig,             \* the whole stream
    pos,              \* how many of its bytes have been delivered
    cuts,             \* the positions at which a delivered buffer ended
    log               \* completion handles invoked since the stream began

vars == <<train, state, watchdog, timers, locks, closing, serial, reconnect,
          reject_on_locked, nextId, fired, written, inflight,
          done, wrote, emitted, threw, ret, orig, pos, cuts, log>>

\* The instance as the handlers see it on entry: the logs of the last handler
\* are empty.
Self ==
    [train |-> train, state |-> state, watchdog |-> watchdog, timers |-> timers,
     locks |-> locks, closing |-> closing, serial |-> serial,
     reconnect |-> reconnect, nextId |-> nextId,
     fired |-> fired, written |-> written, inflight |-> inflight,
     done |-> <<>>, wrote |-> <<>>, emitted |-> <<>>, threw |-> FALSE, ret |-> ""]

\* ------------------------------------------------------------------ helpers
clearTimeout(e) ==
    [e EXCEPT !.watchdog = FALSE,
              !.timers = IF e.watchdog THEN e.timers - 1 ELSE e.timers]

setTimeout(e) == [e EXCEPT !.watchdog = TRUE, !.timers = e.timers + 1]

emit(e, name) == [e EXCEPT !.emitted = Append(@, name)]

\* TrainEntry[1]: kind is "byte" (an ack byte) or "string" (an output buffer).
resolve(e, id, kind, val) ==
    [e EXCEPT !.done = Append(@, [id |-> id, kind |-> kind, val |-> val, err |-> ""]),
              !.fired = @ \cup {id}]

\* TrainEntry[2]
reject(e, id, err) ==
    [e EXCEPT !.done = Append(@, [id |-> id, kind |-> "error", val |-> <<>>, err |-> err]),
              !.fired = @ \cup {id}]

shift(e) == [e EXCEPT !.train = Tail(@)]

\* for (i = 0; i < train.length; ++i) train[i][2](new Error(err))
RECURSIVE reject_all(_, _, _)
reject_all(e, i, err) ==
    IF i > Len(e.train) THEN e
    ELSE reject_all(reject(e, e.train[i].id, err), i + 1, err)

\* data[0] in response_errors ? response_errors[data[0]] : "ERROR_UNKNOWN_RESPONSE"
error_name(b) ==
    IF b \in DOMAIN response_errors THEN response_errors[b]
    ELSE "ERROR_UNKNOWN_RESPONSE"

\* ----------------------------------------------------------------- handlers
\* clear() that leaves the engine state as it is.
clear_keeps_state(e) ==
    LET e1 == reject_all(clearTimeout(e), 1, "ERROR_CLEARED")
        e2 == [e1 EXCEPT !.train = <<>>]
    IN  IF e2.locks > 0 THEN [e2 EXCEPT !.threw = TRUE] ELSE e2

\* clear(): the release loop calls Promise.resolve with the lock array as its
\* receiver, which throws a TypeError, so with a lock outstanding the
\* exception leaves clear() before the lock queue is reset.
clear(e) ==
    LET e1 == reject_all(clearTimeout(e), 1, "ERROR_CLEARED")
        e2 == [e1 EXCEPT !.train = <<>>, !.state = IDLE]
    IN  IF e2.locks > 0 THEN [e2 EXCEPT !.threw = TRUE] ELSE e2

RECURSIVE next(_, _), serial_error(_, _)

\* k: serial.write() throws in this handler.
next(e, k) ==
    IF e.state = IDLE /\ e.train # <<>> THEN
        IF e.serial # "open" THEN
            LET id == e.train[1].id
                c == clear(e)
            IN  IF c.threw THEN c ELSE reject(c, id, "ERROR_DISCONNECTED")
        ELSE
            LET e1 == [e EXCEPT !.state = SENDING]
            IN  IF k THEN serial_error(e1, k)
                ELSE setTimeout(clearTimeout(
                        [e1 EXCEPT !.wrote = Append(@, e1.train[1].id),
                                   !.written = @ \cup {e1.train[1].id},
                                   !.inflight = e1.train[1].id]))
    ELSE e

serial_error(e, k) ==
    LET e1 == emit(e, "error")
        e2 == IF e1.train # <<>>
              THEN reject(shift(e1), e1.train[1].id, "ERROR_WRITE")
              ELSE e1
    IN  next([clearTimeout(e2) EXCEPT !.state = IDLE], k)

\* The for loop of the READING branch, from index i (1-based) of data.
RECURSIVE read_loop(_, _, _, _)
read_loop(e, data, i, k) ==
    IF i > Len(data) THEN e
    ELSE
        LET b == data[i]
            head == e.train[1]
        IN  IF ~head.esc /\ b = RESPONSE_ESC_SEQUENCE THEN
                read_loop([e EXCEPT !.train[1].esc = TRUE], data, i + 1, k)
            ELSE IF ~head.esc /\ b = RESPONSE_OUTPUT_END THEN
                next([shift(resolve(e, head.id, "string", head.out))
                        EXCEPT !.state = IDLE], k)
            ELSE
                read_loop([e EXCEPT !.train[1].esc = FALSE,
                                    !.train[1].out = Append(@, b)],
                          data, i + 1, k)

RECURSIVE serial_data(_, _, _)
serial_data(e, data, k) ==
    IF e.state = IDLE THEN e
    ELSE
        LET e1 == clearTimeout(e) IN
        IF e1.train = <<>> THEN e1
        ELSE
            LET id == e1.train[1].id
                b == data[1]
                more == Len(data) > 1
                rest == SubSeq(data, 2, Len(data))
                reading(r, offset) ==
                    read_loop(setTimeout(r), data, offset + 1, k)
            IN
            IF e1.state = SENDING THEN
                IF b = RESPONSE_LOCKED /\ reject_on_locked THEN
                    emit([reject_all(e1, 1, "ERROR_LOCKED") EXCEPT !.state = IDLE],
                         "locked")
                ELSE
                    LET e2 == IF b = RESPONSE_LOCKED THEN emit(e1, "locked") ELSE e1 IN
                    IF b \in {RESPONSE_OK, RESPONSE_SEND_INPUT, RESPONSE_REJECTED} THEN
                        LET e3 == resolve(shift(e2), id, "byte", <<b>>) IN
                        IF more THEN serial_data(e3, rest, k)
                        ELSE next([e3 EXCEPT !.state = IDLE], k)
                    ELSE IF b = RESPONSE_OUTPUT THEN
                        reading([e2 EXCEPT !.state = READING], 1)
                    ELSE IF b = RESPONSE_WAIT_USER_CONFIRM THEN
                        LET e3 == emit(e2, "wait_user_confirm") IN
                        IF more THEN serial_data(e3, rest, k) ELSE e3
                    ELSE
                        LET e3 == [shift(reject(e2, id, error_name(b)))
                                     EXCEPT !.state = IDLE] IN
                        IF more THEN serial_data(e3, rest, k) ELSE next(e3, k)
            ELSE reading(e1, 0)

serial_watchdog(e, k) ==
    IF e.train = <<>> THEN e
    ELSE next([shift(reject(e, e.train[1].id, "ERROR_WATCHDOG"))
                 EXCEPT !.state = IDLE], k)

close(e) ==
    IF e.closing THEN e
    ELSE
        LET c == clear([e EXCEPT !.closing = TRUE]) IN
        IF c.threw THEN c
        ELSE [c EXCEPT !.reconnect = FALSE, !.serial = "none"]

\* open(): new SerialPort(port, options) opens by itself (autoOpen).
open(e) ==
    LET e1 == [e EXCEPT !.closing = FALSE] IN
    IF e1.serial = "open" THEN e1
    ELSE
        LET e2 == IF e1.serial # "none" THEN close(e1) ELSE e1 IN
        IF e2.threw THEN e2 ELSE [e2 EXCEPT !.serial = "opening"]

locked(e) == e.locks # 0

\* lock(): pushes a handle and returns Promise.resolve(), a waiter that is
\* already complete.
lock(e) == [e EXCEPT !.locks = @ + 1, !.ret = "completed"]

\* unlock(): the shifted handle is Promise.resolve called without a receiver,
\* which throws a TypeError.
unlock(e) ==
    IF e.locks # 0 THEN [e EXCEPT !.locks = @ - 1, !.threw = TRUE] ELSE e

TrainEntry(data, id) == [data |-> data, id |-> id, esc |-> FALSE, out |-> <<>>]

\* A queue that puts every entry in front.
enqueue_front(q, c, prepend) == <<c>> \o q

enqueue(q, c, prepend) == IF prepend THEN <<c>> \o q ELSE Append(q, c)

\* send() without the test of the port.
send_unchecked(e, data, prepend, k) ==
    LET c == TrainEntry(<<data>>, e.nextId + 1)
    IN  next([e EXCEPT !.train = enqueue(@, c, prepend),
                       !.nextId = @ + 1,
                       !.ret = "pending"], k)

send(e, data, prepend, k) ==
    IF e.serial # "open" THEN [e EXCEPT !.ret = "ERROR_DISCONNECTED"]
    ELSE
        LET c == TrainEntry(<<data>>, e.nextId + 1)
        IN  next([e EXCEPT !.train = enqueue(@, c, prepend),
                            !.nextId = @ + 1,
                            !.ret = "pending"], k)

\* The handlers the port's events are bound to in open().
on_error(e) ==
    IF e.serial # "none" /\ e.serial # "open"
    THEN emit([e EXCEPT !.reconnect = TRUE], "failed")
    ELSE e

on_close(e) ==
    LET e1 == emit(e, "close") IN
    [e1 EXCEPT !.reconnect = ~e1.closing]

on_open(e, k) == next(emit([e EXCEPT !.reconnect = FALSE], "open"), k)

\* ------------------------------------------------------------------ actions
Instance(r) ==
    /\ train' = r.train
    /\ state' = r.state
    /\ watchdog' = r.watchdog
    /\ timers' = r.timers
    /\ locks' = r.locks
    /\ closing' = r.closing
    /\ serial' = r.serial
    /\ reconnect' = r.reconnect
    /\ nextId' = r.nextId
    /\ fired' = r.fired
    /\ written' = r.written
    /\ inflight' = r.inflight
    /\ done' = r.done
    /\ wrote' = r.wrote
    /\ emitted' = r.emitted
    /\ threw' = r.threw
    /\ ret' = r.ret
    /\ UNCHANGED reject_on_locked

Becomes(r) == Instance(r) /\ UNCHANGED <<orig, pos, cuts, log>>

\* Whether serial.write() throws. The port is open and the data a string, for
\* which write() does not throw: it reports a failure through the port's
\* error event.
Throws == {FALSE}

InBounds(r) ==
    /\ \A i \in 1..Len(r.train) : Len(r.train[i].out) <= MaxOut
    /\ \A i \in 1..Len(r.done) : Len(r.done[i].val) <= MaxOut

\* The constructor: empty queue, IDLE, no locks, then open().
constructor ==
    open([train |-> <<>>, state |-> IDLE, watchdog |-> FALSE, timers |-> 0,
          locks |-> 0, closing |-> FALSE, serial |-> "none", reconnect |-> FALSE,
          nextId |-> 0, fired |-> {}, written |-> {}, inflight |-> 0,
          done |-> <<>>, wrote |-> <<>>, emitted |-> <<>>, threw |-> FALSE,
          ret |-> ""])

Is(r) ==
    /\ train = r.train
    /\ state = r.state
    /\ watchdog = r.watchdog
    /\ timers = r.timers
    /\ locks = r.locks
    /\ closing = r.closing
    /\ serial = r.serial
    /\ reconnect = r.reconnect
    /\ nextId = r.nextId
    /\ fired = r.fired
    /\ written = r.written
    /\ inflight = r.inflight
    /\ done = r.done
    /\ wrote = r.wrote
    /\ emitted = r.emitted
    /\ threw = r.threw
    /\ ret = r.ret

Init ==
    /\ Is(constructor)
    /\ reject_on_locked \in BOOLEAN
    /\ orig = <<>>
    /\ pos = 0
    /\ cuts = {}
    /\ log = <<>>

SendStep(prepend, most) ==
    \E k \in Throws :
        /\ nextId < most
        /\ Becomes(send(Self, COMMAND_INFO, prepend, k))

DoSend == \E prepend \in BOOLEAN : SendStep(prepend, MaxCmds)

DoSendAppend == SendStep(FALSE, MaxAppends)

DoClear == Becomes(clear(Self))

DoClose == Becomes(close(Self))

DoOpen == Becomes(open(Self))

DoLock ==
    /\ locks < MaxLocks
    /\ Becomes(lock(Self))

DoUnlock == Becomes(unlock(Self))

OnData ==
    \E data \in Buffers, k \in Throws :
        /\ serial = "open"
        /\ LET r == serial_data(Self, data, k)
           IN  InBounds(r) /\ Becomes(r)

\* An armed watchdog timer expires: the one the handle refers to, or another.
OnWatchdog ==
    \E k \in Throws :
    \E handle \in {h \in BOOLEAN : IF h THEN watchdog
                                   ELSE timers > (IF watchdog THEN 1 ELSE 0)} :
        LET e == [Self EXCEPT !.timers = @ - 1,
                              !.watchdog = IF handle THEN FALSE ELSE @]
        IN  Becomes(serial_watchdog(e, k))

OnPortOpen ==
    \E k \in Throws :
        /\ serial = "opening"
        /\ Becomes(on_open([Self EXCEPT !.serial = "open"], k))

OnPortOpenFail ==
    /\ serial = "opening"
    /\ Becomes(on_error([Self EXCEPT !.serial = "closed"]))

OnPortError ==
    /\ serial = "open"
    /\ Becomes(on_error(Self))

OnPortClose ==
    /\ serial = "open"
    /\ Becomes(on_close([Self EXCEPT !.serial = "closed"]))

OnReconnect ==
    /\ reconnect
    /\ Becomes(open(Self))

Next ==
    \/ DoSend
    \/ DoClear
    \/ DoClose
    \/ DoOpen
    \/ DoLock
    \/ DoUnlock
    \/ OnData
    \/ OnWatchdog
    \/ OnPortOpen
    \/ OnPortOpenFail
    \/ OnPortError
    \/ OnPortClose
    \/ OnReconnect

Spec == Init /\ [][Next]_vars

\* A timer that is armed and not cleared expires.
FairSpec == Spec /\ WF_vars(OnWatchdog)

\* The runs in which no send() uses prepend.
NextFifo ==
    \/ DoSendAppend
    \/ DoClear
    \/ DoClose
    \/ DoOpen
    \/ DoLock
    \/ DoUnlock
    \/ OnData
    \/ OnWatchdog
    \/ OnPortOpen
    \/ OnPortOpenFail
    \/ OnPortError
    \/ OnPortClose
    \/ OnReconnect

SpecFifo == Init /\ [][NextFifo]_vars

\* The runs in which the client never calls close().
NextNoClose ==
    \/ DoSend
    \/ DoClear
    \/ DoOpen
    \/ DoLock
    \/ DoUnlock
    \/ OnData
    \/ OnWatchdog
    \/ OnPortOpen
    \/ OnPortOpenFail
    \/ OnPortError
    \/ OnPortClose
    \/ OnReconnect

SpecNoClose == Init /\ [][NextNoClose]_vars

\* ------------------------------------------------- replaying a response stream
\* Longest arbitrary response stream.
MaxStream == 3
\* Longest output payload of a framed response.
MaxPayload == 2

\* The control bytes of the wire protocol.
ControlBytes ==
    {RESPONSE_OK, RESPONSE_SEND_INPUT, RESPONSE_REJECTED, RESPONSE_OUTPUT,
     RESPONSE_OUTPUT_END, RESPONSE_ESC_SEQUENCE, RESPONSE_WAIT_USER_CONFIRM,
     RESPONSE_LOCKED} \cup DOMAIN response_errors

\* The device's encoding of an output: ESC_SEQUENCE before every control byte.
RECURSIVE Escape(_)
Escape(B) ==
    IF B = <<>> THEN <<>>
    ELSE (IF Head(B) \in ControlBytes THEN <<RESPONSE_ESC_SEQUENCE, Head(B)>>
          ELSE <<Head(B)>>) \o Escape(Tail(B))

Frame(B) == <<RESPONSE_OUTPUT>> \o Escape(B) \o <<RESPONSE_OUTPUT_END>>

Payloads == SeqsUpTo(Bytes \cup {170}, MaxPayload)

Streams == (SeqsUpTo(Bytes, MaxStream) \ {<<>>}) \cup {Frame(B) : B \in Payloads}

\* The instance once the port has opened and n commands were submitted.
Opened == on_open([constructor EXCEPT !.serial = "open"], FALSE)

RECURSIVE Submitted(_)
Submitted(n) ==
    IF n = 0 THEN Opened ELSE send(Submitted(n - 1), COMMAND_INFO, FALSE, FALSE)

InitStream ==
    /\ \E n \in 1..MaxCmds : Is(Submitted(n))
    /\ reject_on_locked \in BOOLEAN
    /\ orig \in Streams
    /\ pos = 0
    /\ cuts = {}
    /\ log = <<>>

\* The next n bytes of the stream arrive as one buffer.
Feed ==
    \E n \in 1..(Len(orig) - pos) :
        LET r == serial_data(Self, SubSeq(orig, pos + 1, pos + n), FALSE)
        IN  /\ Instance(r)
            /\ pos' = pos + n
            /\ cuts' = cuts \cup {pos + n}
            /\ log' = log \o r.done
            /\ UNCHANGED orig

NextStream == Feed

SpecStream == InitStream /\ [][NextStream]_vars

\* The stream s delivered to e one byte per buffer: the instance it leaves
\* and the completion handles invoked.
RECURSIVE Bytewise(_, _, _)
Bytewise(e, s, acc) ==
    IF s = <<>> THEN [e |-> e, log |-> acc]
    ELSE LET r == serial_data([e EXCEPT !.done = <<>>], <<Head(s)>>, FALSE)
         IN  Bytewise(r, Tail(s), acc \o r.done)


\* Every way of splitting the stream s into buffers, delivered to e: the
\* engine state and queue each leaves, and the completion handles invoked.
RECURSIVE Outcomes(_, _, _)
Outcomes(e, s, acc) ==
    IF s = <<>> THEN {[state |-> e.state, train |-> e.train, log |-> acc]}
    ELSE UNION {LET r == serial_data([e EXCEPT !.done = <<>>], SubSeq(s, 1, n), FALSE)
                IN  Outcomes(r, SubSeq(s, n + 1, Len(s)), acc \o r.done)
                : n \in 1..Len(s)}

\* ------------------------------------------------------------------- claims
Ids(q) == {q[i].id : i \in 1..Len(q)}

Rejected(id, err) == [id |-> id, kind |-> "error", val |-> <<>>, err |-> err]

Resolved(id, kind, val) == [id |-> id, kind |-> kind, val |-> val, err |-> ""]

\* C1: a handler invokes a completion handle only of an entry none of whose
\* handles was invoked before, and at most one handle per entry; and every
\* entry that has left the queue has had a handle invoked.
C1_ExactlyOnce ==
    [][/\ \A i \in 1..Len(done') :
            /\ done'[i].id \notin fired
            /\ \A j \in 1..Len(done') : j # i => done'[j].id # done'[i].id
       /\ \A id \in 1..nextId' : id \notin Ids(train') => id \in fired']_vars

\* C2: in the runs without prepend, the command written last is the latest
\* accepted of all the commands written so far: no command was written after
\* one that send() accepted later.
C2_WireOrder == \A id \in written : id <= inflight

\* Both commands of a run were written, the first before the second.
C2_Witness == written = {1, 2} /\ inflight = 2 /\ wrote = <<2>>

\* C3: send(x, prepend=true) with H in flight leaves H, with its output
\* buffer and escape flag, at the head and puts x right behind it.
C3_PrependKeepsHead ==
    [][(/\ SendStep(TRUE, MaxCmds)
        /\ serial = "open"
        /\ state \in {SENDING, READING}
        /\ train # <<>>
        /\ train[1].id = inflight)
       => train' = <<train[1], TrainEntry(<<COMMAND_INFO>>, nextId + 1)>>
                      \o Tail(train)]_vars

\* C4: every accepted command has a completion handle invoked in the end,
\* given that an armed watchdog expires.
C4_EventuallyCompleted ==
    \A id \in 1..MaxCmds : (nextId >= id) ~> (id \in fired)

\* C5: the watchdog expiring on a pending command in flight that has seen no
\* inbound byte (the engine is SENDING with the watchdog still armed: every
\* data event in SENDING disarms it) rejects that command with WATCHDOG and
\* removes it; the engine ends IDLE, or SENDING with the next entry written.
C5_WatchdogFailsInFlight ==
    [][(/\ OnWatchdog
        /\ state = SENDING
        /\ watchdog
        /\ inflight \in Ids(train)
        /\ inflight \notin fired)
       => /\ \E i \in 1..Len(done') : done'[i] = Rejected(inflight, "ERROR_WATCHDOG")
          /\ inflight \notin Ids(train')
          /\ \/ state' = IDLE
             \/ state' = SENDING /\ train' # <<>> /\ wrote' = <<train'[1].id>>]_vars

\* C6: once the whole stream is delivered, the completions, the engine state
\* and the queue are those of the same stream delivered one byte per buffer.
C6_SplitInvariant ==
    pos = Len(orig) =>
        LET ref == Bytewise(Submitted(nextId), orig, <<>>)
        IN  /\ log = ref.log
            /\ state = ref.e.state
            /\ train = ref.e.train

\* C7: with one pending command written and in flight in SENDING, the framed
\* and escaped encoding of any B, however split into buffers, resolves that
\* command with B and leaves the engine IDLE.
C7_EscapeRoundTrip ==
    (/\ Len(train) = 1
     /\ state = SENDING
     /\ serial = "open"
     /\ train[1].id = inflight
     /\ inflight \notin fired)
    => \A B \in Payloads :
         Outcomes(Self, Frame(B), <<>>) =
             {[state |-> IDLE, train |-> <<>>,
               log |-> <<Resolved(inflight, "string", B)>>]}

\* C8: clear() leaves the queue empty, the engine IDLE and no watchdog armed,
\* and has invoked the rejecter of every entry that was queued with CLEARED.
C8_ClearEmpties ==
    LET r == clear(Self)
    IN  /\ r.train = <<>>
        /\ r.state = IDLE
        /\ ~r.watchdog
        /\ r.timers = 0
        /\ r.done = [i \in 1..Len(train) |-> Rejected(train[i].id, "ERROR_CLEARED")]

\* clear() has run on an open instance with two entries queued.
C8_Witness ==
    /\ serial = "open"
    /\ ~closing
    /\ train = <<>>
    /\ state = IDLE
    /\ done = <<Rejected(1, "ERROR_CLEARED"), Rejected(2, "ERROR_CLEARED")>>

\* C9: send() without an open port returns DISCONNECTED and changes nothing
\* of the instance: no entry, no write, same engine state and watchdog.
C9_SendDisconnected ==
    serial # "open" =>
        \A prepend \in BOOLEAN, k \in Throws :
            send(Self, COMMAND_INFO, prepend, k) = [Self EXCEPT !.ret = "ERROR_DISCONNECTED"]

\* send() was refused while a command written before the port closed is
\* still in flight.
C9_Witness ==
    /\ ret = "ERROR_DISCONNECTED"
    /\ serial # "open"
    /\ state = SENDING
    /\ watchdog
    /\ train # <<>>

\* C10: with reject_on_locked, a buffer that starts with LOCKED, handled
\* while SENDING, rejects every queued entry with LOCKED, leaves the engine
\* IDLE and emits locked once.
C10_LockedRejectsAll ==
    [][(/\ reject_on_locked
        /\ state = SENDING
        /\ serial = "open"
        /\ \E data \in Buffers, k \in Throws :
              data[1] = RESPONSE_LOCKED /\ Becomes(serial_data(Self, data, k)))
       => /\ state' = IDLE
          /\ emitted' = <<"locked">>
          /\ done' = [i \in 1..Len(train) |-> Rejected(train[i].id, "ERROR_LOCKED")]]_vars

\* C11: without reject_on_locked, a LOCKED byte handled while SENDING emits
\* locked once, invokes no completion handle and leaves the engine SENDING
\* with the same queue; the bytes behind it in the buffer are then decoded
\* as a buffer of their own would be.
C11_LockedContinues ==
    (~reject_on_locked /\ state = SENDING /\ serial = "open" /\ train # <<>>)
    => LET r == serial_data(Self, <<RESPONSE_LOCKED>>, FALSE)
       IN  /\ r.emitted = <<"locked">>
           /\ r.done = <<>>
           /\ r.state = SENDING
           /\ r.train = train
           /\ \A rest \in Buffers :
                serial_data(Self, <<RESPONSE_LOCKED>> \o rest, FALSE)
                    = serial_data(r, rest, FALSE)

\* C12: at most one watchdog timer is armed, and one is armed exactly while
\* the engine is SENDING or READING.
C12_WatchdogIffBusy ==
    /\ timers <= 1
    /\ (timers = 1) <=> (state \in {SENDING, READING})

\* C13: close() called in any reachable state leaves closing set, no
\* connection handle (the port closed), no reconnect timer, an empty queue
\* and the engine IDLE; a second close() changes nothing.
C13_CloseTearsDown ==
    LET r == close(Self)
    IN  /\ r.closing
        /\ r.serial = "none"
        /\ ~r.reconnect
        /\ r.train = <<>>
        /\ r.state = IDLE
        /\ close(r) = r

\* C14: in the runs in which the client never calls close(), every close
\* event of the port emits close and leaves the reconnect timer armed.
C14_ReconnectEachClose ==
    [][OnPortClose => (emitted' = <<"close">> /\ reconnect')]_vars

\* C15: the waiter lock() returns is complete at once when no lock is
\* outstanding and pending while an earlier lock has not been released;
\* locked() tells whether a lock is outstanding, and none is after clear().
C15_LockWaitersFifo ==
    /\ locked(Self) <=> (locks > 0)
    /\ ~locked(Self) => lock(Self).ret = "completed"
    /\ locked(Self) => lock(Self).ret = "pending"
    /\ ~locked(clear(Self))

\* C16: while the engine is SENDING or READING the queue is non-empty and
\* its head is the command written to the port last.
C16_HeadInFlight ==
    state \in {SENDING, READING} => (train # <<>> /\ train[1].id = inflight)

\* C17: no handler leaves the engine IDLE with the port open and, at the
\* head of the queue, a pending entry that was never written.
C17_NoIdleBacklog ==
    ~(/\ state = IDLE
      /\ serial = "open"
      /\ train # <<>>
      /\ train[1].id \notin written
      /\ train[1].id \notin fired)

\* C18: a WAIT_USER_CONFIRM byte handled while SENDING emits
\* wait_user_confirm once, invokes no completion handle and leaves the
\* engine SENDING with the same queue; the bytes behind it are decoded the
\* same in the same buffer as in a later one, and a framed output B that
\* follows, however split, resolves the head with B.
C18_WaitKeepsHead ==
    (state = SENDING /\ serial = "open" /\ train # <<>>)
    => LET r == serial_data(Self, <<RESPONSE_WAIT_USER_CONFIRM>>, FALSE)
       IN  /\ r.emitted = <<"wait_user_confirm">>
           /\ r.done = <<>>
           /\ r.state = SENDING
           /\ r.train = train
           /\ \A rest \in Buffers :
                serial_data(Self, <<RESPONSE_WAIT_USER_CONFIRM>> \o rest, FALSE)
                    = serial_data(r, rest, FALSE)
           /\ \A B \in Payloads :
                \A o \in Outcomes(r, Frame(B), <<>>) :
                    o.log = <<Resolved(train[1].id, "string", B)>>

\* The completion delivered to entry id by the handles invoked in d: a
\* promise settles on the first of its handles to be invoked.
Delivered(d, id) ==
    LET first == CHOOSE i \in 1..Len(d) :
                    d[i].id = id /\ \A j \in 1..(i - 1) : d[j].id # id
    IN  d[first]

\* C19: the watchdog expiring after the port has closed, with another entry
\* queued behind the head, makes next() dequeue on a closed port: the entry
\* it finds at the head is delivered DISCONNECTED, the queue is emptied and
\* the engine is IDLE.
C19_DequeueDisconnected ==
    (serial # "open" /\ state # IDLE /\ timers > 0 /\ Len(train) >= 2)
    => LET r == serial_watchdog(Self, FALSE)
           id == train[2].id
       IN  /\ r.train = <<>>
           /\ r.state = IDLE
           /\ \E i \in 1..Len(r.done) : r.done[i].id = id
           /\ Delivered(r.done, id) = Rejected(id, "ERROR_DISCONNECTED")

\* C20: with a command in flight, the handler of the port's close event and
\* the handler of its error event each leave the engine IDLE.
C20_PortEventGoesIdle ==
    (state \in {SENDING, READING} /\ serial = "open" /\ train # <<>>)
    => /\ on_close([Self EXCEPT !.serial = "closed"]).state = IDLE
       /\ on_error(Self).state = IDLE

\* C21: every entry whose resolver the last handler invoked, with an ack
\* byte or an output string, had its bytes written to the port.
C21_ResolvedAfterWrite ==
    \A i \in 1..Len(done) : done[i].kind # "error" => done[i].id \in written

\* C22: no entry of the queue has had a completion handle invoked.
C22_QueuedArePending ==
    \A i \in 1..Len(train) : train[i].id \notin fired

====
